---- MODULE Spec2Model ----
(***************************************************************************)
(* A model of main.py: a linear script that declares two mapped classes    *)
(* (User, Address), creates the schema in an in-memory SQLite database,    *)
(* inserts rows through a first Session, and queries and changes them      *)
(* through a second Session.                                               *)
(*                                                                         *)
(* The state is the script's position (pc), the exception that ended it    *)
(* (error), the committed database (db), the open transaction's view of    *)
(* the database (inTx, tx), the current Session (session), the Python      *)
(* objects created so far (heap), the script's variables (env), the        *)
(* constructor arguments being evaluated (args), the rows a result still   *)
(* has to yield (result) and what was printed (out).                       *)
(*                                                                         *)
(* One action models one statement of the script, or one SQL statement     *)
(* that a library call emits (echo=True logs each of them): create_all     *)
(* is BEGIN, one CREATE TABLE per table, COMMIT; Session.commit is the     *)
(* flush (one INSERT or UPDATE per object, in unit-of-work order), then    *)
(* COMMIT and the expiry of the session's objects.                         *)
(*                                                                         *)
(* None is 0 for integers and object references and "" for strings.        *)
(***************************************************************************)
EXTENDS Integers, Sequences, FiniteSets, TLC

VARIABLES pc, error, engine, db, inTx, tx, session, heap, env, args, result, out

vars == <<pc, error, engine, db, inTx, tx, session, heap, env, args, result, out>>

(***************************************************************************)
(* The literals of the script.                                             *)
(***************************************************************************)
UserTable == "user_account"

AddressTable == "address"

\* Base.metadata's tables in dependency order: address has a foreign key
\* to user_account, so user_account is created first.
MetadataTables == <<UserTable, AddressTable>>

Spongebob == [name |-> "spongebob", fullname |-> "Spongebob Squarepants"]

Sandy == [name |-> "sandy", fullname |-> "Sandy Cheeks"]

Patrick == [name |-> "patrick", fullname |-> "Patrick Star"]

SpongebobEmail == "spongebob@sqlalchemy.org"

SandyEmail == "sandy@sqlalchemy.org"

SandyEmail2 == "sandy@squirrelpower.org"

PatrickEmail == "patrickstar@sqlalchemy.org"

SandyNewEmail == "sandy_cheeks@sqlalchemy.org"

InNames == {"spongebob", "sandy"}

(***************************************************************************)
(* The database: the tables that exist and the rows of each.               *)
(***************************************************************************)
EmptyDB == [tables |-> {}, user_account |-> {}, address |-> {}]

RECURSIVE MaxOf(_)
MaxOf(S) ==
    IF S = {} THEN 0
    ELSE LET x == CHOOSE y \in S : TRUE
             m == MaxOf(S \ {x})
         IN  IF x > m THEN x ELSE m

\* An INTEGER PRIMARY KEY column left unset takes the largest rowid plus one.
NextId(rows) == MaxOf({r.id : r \in rows}) + 1

\* A scan of a table without ORDER BY, as SQLite does it: by ascending rowid.
RECURSIVE Scan(_)
Scan(rows) ==
    IF rows = {} THEN <<>>
    ELSE LET first == CHOOSE r \in rows : \A q \in rows : r.id <= q.id
         IN  <<first>> \o Scan(rows \ {first})

\* A mutation of SelectUsersWhereNameIn: the WHERE criterion is left out.
SelectUsersUnfiltered(d, names) == Scan(d.user_account)

\* select(User).where(User.name.in_(names))
SelectUsersWhereNameIn(d, names) ==
    Scan({r \in d.user_account : r.name \in names})

\* select(User).where(User.name == name)
SelectUsersWhereNameEq(d, name) ==
    Scan({r \in d.user_account : r.name = name})

\* A mutation of SelectAddressJoinUser: the second where() is left out.
SelectAddressJoinUserAnyEmail(d, name, email) ==
    Scan({a \in d.address :
            \E u \in d.user_account : u.id = a.user_id /\ u.name = name})

\* select(Address).join(Address.user).where(User.name == name)
\*                .where(Address.email_address == email)
SelectAddressJoinUser(d, name, email) ==
    Scan({a \in d.address :
            /\ \E u \in d.user_account : u.id = a.user_id /\ u.name = name
            /\ a.email_address = email})

\* The lazy load of User.addresses: the address rows of one user.
SelectAddressesOfUser(d, uid) ==
    Scan({a \in d.address : a.user_id = uid})

(***************************************************************************)
(* Python objects.  An object of a mapped class is transient when          *)
(* constructed, pending once added to a Session, persistent once flushed   *)
(* or loaded, and detached once its Session is closed.                     *)
(***************************************************************************)
\* User(name=..., fullname=...) or User(id=..., name=..., fullname=...)
NewUser(id, name, fullname) ==
    [cls |-> "User", state |-> "transient", session |-> 0, id |-> id,
     name |-> name, fullname |-> fullname, email_address |-> "",
     user_id |-> 0, user |-> 0, addresses |-> "loaded",
     expired |-> FALSE, modified |-> FALSE]

\* Address(email_address=...)
NewAddress(email) ==
    [cls |-> "Address", state |-> "transient", session |-> 0, id |-> 0,
     name |-> "", fullname |-> "", email_address |-> email,
     user_id |-> 0, user |-> 0, addresses |-> "n/a",
     expired |-> FALSE, modified |-> FALSE]

\* __repr__ of the two classes, as the tuple of what the f-string shows.
Repr(o) ==
    IF o.cls = "User" THEN <<"User", o.id, o.name, o.fullname>>
    ELSE <<"Address", o.id, o.email_address>>

\* The object a Session builds from a row it loads.
UserFromRow(sid, row) ==
    [NewUser(row.id, row.name, row.fullname) EXCEPT
        !.state = "persistent", !.session = sid, !.addresses = "unloaded"]

AddressFromRow(sid, row) ==
    [NewAddress(row.email_address) EXCEPT
        !.state = "persistent", !.session = sid, !.id = row.id,
        !.user_id = row.user_id]

ObjectFromRow(sid, cls, row) ==
    IF cls = "User" THEN UserFromRow(sid, row) ELSE AddressFromRow(sid, row)

\* The identity map: the persistent object a session holds for a primary key.
Identity(h, sid, cls, id) ==
    {r \in DOMAIN h : /\ h[r].session = sid /\ h[r].cls = cls
                      /\ h[r].id = id /\ h[r].state = "persistent"}

\* Loading rows into a session: a row whose object the identity map holds
\* yields that object, any other row a new object.  The result is the heap
\* and the references of the objects, in the order of the rows.
RECURSIVE LoadRows(_, _, _, _, _)
LoadRows(h, sid, cls, rows, refs) ==
    IF rows = <<>> THEN [heap |-> h, refs |-> refs]
    ELSE LET row == Head(rows)
             known == Identity(h, sid, cls, row.id)
         IN  IF known # {}
             THEN LoadRows(h, sid, cls, Tail(rows),
                           Append(refs, CHOOSE r \in known : TRUE))
             ELSE LoadRows(Append(h, ObjectFromRow(sid, cls, row)), sid, cls,
                           Tail(rows), Append(refs, Len(h) + 1))

\* The Address objects of a user's addresses collection (the backref keeps
\* Address.user and User.addresses in step).
AddressesOf(h, u) == {r \in DOMAIN h : h[r].cls = "Address" /\ h[r].user = u}

\* User(..., addresses=[...]): the new user owns the addresses just built.
ConstructUser(h, id, name, fullname, owned) ==
    LET u == Len(h) + 1
    IN  [r \in 1..u |->
            IF r = u THEN NewUser(id, name, fullname)
            ELSE IF \E i \in DOMAIN owned : owned[i] = r
                 THEN [h[r] EXCEPT !.user = u]
                 ELSE h[r]]

\* Session.add with the save-update cascade of User.addresses: the user and
\* the transient addresses it owns become pending, the user first.
RECURSIVE SeqOfRefs(_)
SeqOfRefs(S) ==
    IF S = {} THEN <<>>
    ELSE LET r == CHOOSE x \in S : \A y \in S : x <= y
         IN  <<r>> \o SeqOfRefs(S \ {r})

CascadeSaveUpdate(h, u) ==
    <<u>> \o SeqOfRefs({a \in AddressesOf(h, u) : h[a].state = "transient"})

RECURSIVE AddAllOrder(_, _)
AddAllOrder(h, users) ==
    IF users = <<>> THEN <<>>
    ELSE CascadeSaveUpdate(h, Head(users)) \o AddAllOrder(h, Tail(users))

MakePending(h, sid, refs) ==
    [r \in DOMAIN h |->
        IF \E i \in DOMAIN refs : refs[i] = r
        THEN [h[r] EXCEPT !.state = "pending", !.session = sid]
        ELSE h[r]]

(***************************************************************************)
(* The flush: the unit of work of a session, one SQL statement at a time.  *)
(* User is saved before Address (Address depends on it); for one class     *)
(* the UPDATEs are emitted before the INSERTs, the UPDATEs by primary key  *)
(* and the INSERTs in the order the objects were added.                    *)
(***************************************************************************)
RECURSIVE SortByKey(_, _)
SortByKey(h, S) ==
    IF S = {} THEN <<>>
    ELSE LET r == CHOOSE x \in S : \A y \in S : h[x].id <= h[y].id
         IN  <<r>> \o SortByKey(h, S \ {r})

Dirty(h, sid, cls) ==
    {r \in DOMAIN h : /\ h[r].session = sid /\ h[r].cls = cls
                      /\ h[r].state = "persistent" /\ h[r].modified}

RECURSIVE Tagged(_, _)
Tagged(op, refs) ==
    IF refs = <<>> THEN <<>>
    ELSE <<[op |-> op, ref |-> Head(refs)]>> \o Tagged(op, Tail(refs))

PendingOf(h, s, cls) ==
    SelectSeq(s.new, LAMBDA r : h[r].cls = cls /\ h[r].state = "pending")

SaveWork(h, s, cls) ==
    Tagged("UPDATE", SortByKey(h, Dirty(h, s.id, cls)))
        \o Tagged("INSERT", PendingOf(h, s, cls))

FlushWork(h, s) == SaveWork(h, s, "User") \o SaveWork(h, s, "Address")

\* A mutation of SyncForeignKey: the foreign key is taken from the user
\* object's place among the objects, not from its primary key.
SyncForeignKeyByRef(h, a) == h[a].user

\* The foreign key of an address being saved is the primary key of the
\* user it was given; an address that was loaded and given no user keeps
\* the user_id of its row, and a new one without a user has None.
SyncForeignKey(h, a) ==
    IF h[a].user = 0 THEN h[a].user_id ELSE h[h[a].user].id

\* NOT NULL: Address.email_address and Address.user_id are nullable=False.
ViolatesNotNull(h, w) ==
    /\ h[w.ref].cls = "Address"
    /\ \/ h[w.ref].email_address = ""
       \/ SyncForeignKey(h, w.ref) = 0

\* The row an INSERT or UPDATE of the object writes.
RowOf(o, id, uid) ==
    IF o.cls = "User"
    THEN [id |-> id, name |-> o.name, fullname |-> o.fullname]
    ELSE [id |-> id, email_address |-> o.email_address, user_id |-> uid]

TableOf(d, cls) == IF cls = "User" THEN d.user_account ELSE d.address

WithTable(d, cls, rows) ==
    IF cls = "User" THEN [d EXCEPT !.user_account = rows]
    ELSE [d EXCEPT !.address = rows]

\* The primary key the statement's row has: a new one for an INSERT.
KeyOf(d, h, w) ==
    IF w.op = "INSERT" THEN NextId(TableOf(d, h[w.ref].cls)) ELSE h[w.ref].id

\* The database after the statement of one unit of work.
Execute(d, h, w) ==
    LET o == h[w.ref]
        uid == IF o.cls = "Address" THEN SyncForeignKey(h, w.ref) ELSE 0
        id == KeyOf(d, h, w)
        kept == {r \in TableOf(d, o.cls) : r.id # id}
    IN  WithTable(d, o.cls, kept \cup {RowOf(o, id, uid)})

\* The object after its statement: it has its key and is persistent.
Saved(d, h, w) ==
    [h EXCEPT ![w.ref] =
        [@ EXCEPT !.state = "persistent", !.modified = FALSE,
                  !.id = KeyOf(d, h, w),
                  !.user_id = IF h[w.ref].cls = "Address"
                              THEN SyncForeignKey(h, w.ref) ELSE 0]]

\* COMMIT: the transaction's view becomes the committed database.
CommitTransaction(committed, view) == view

\* expire_on_commit: every attribute of the session's objects is expired.
ExpireAll(h, sid) ==
    [r \in DOMAIN h |->
        IF h[r].session = sid /\ h[r].state = "persistent"
        THEN [h[r] EXCEPT !.expired = TRUE,
                          !.addresses = IF @ = "n/a" THEN @ ELSE "unloaded"]
        ELSE h[r]]

\* Session.close: the session's objects are detached (a pending one is
\* transient again).
CloseAll(h, sid) ==
    [r \in DOMAIN h |->
        IF h[r].session = sid
        THEN [h[r] EXCEPT !.session = 0,
                          !.state = IF @ = "pending" THEN "transient"
                                    ELSE "detached"]
        ELSE h[r]]

\* Reading an attribute that is not loaded needs the object's session.
NeedsSession(o, attr) ==
    \/ o.expired
    \/ attr = "addresses" /\ o.addresses = "unloaded"

Detached(o) == o.state = "detached" /\ o.session = 0

(***************************************************************************)
(* The script.  Its statements run in order; there is no try/except, so    *)
(* an exception raised by a statement ends the run where it is.            *)
(***************************************************************************)
PcOrder ==
    <<"L58_create_engine", "L63_begin", "L63_create_table", "L63_commit",
      "L69_session", "L75_address", "L72_user", "L81_address", "L82_address",
      "L77_user", "L85_user", "L88_add_all", "L91_begin", "L91_flush",
      "L91_commit", "L92_close", "L96_session", "L104_begin", "L104_select",
      "L104_next", "L105_print", "L107_user", "L108_user", "L118_select_one",
      "L119_print", "L125_select_one", "L128_lazyload", "L128_address",
      "L128_append", "L131_set_email", "L133_flush", "L133_commit",
      "L138_get">>

Pos(l) == CHOOSE i \in DOMAIN PcOrder : PcOrder[i] = l

\* The steps that send a statement to the database.
StatementSteps ==
    {"L63_begin", "L63_create_table", "L63_commit", "L91_begin", "L91_flush",
     "L91_commit", "L104_begin", "L104_select", "L118_select_one",
     "L125_select_one", "L128_lazyload", "L133_flush", "L133_commit"}

\* The statements inside "with Session(engine) as session:".
InWithBlock(l) == Pos(l) > Pos("L69_session") /\ Pos(l) <= Pos("L91_commit")

\* What the environment can raise in a step: an interrupt anywhere, a
\* database error in a step that sends a statement.
EnvFaults(l) ==
    {"KeyboardInterrupt"}
        \cup (IF l \in StatementSteps THEN {"OperationalError"} ELSE {})

AllEnvFaults == {"KeyboardInterrupt", "OperationalError"}

\* A mutation of At: a raised exception is swallowed and the script goes on.
AtIgnoringError(l) == pc = l

\* A statement runs when control is at it and nothing has been raised.
At(l) == pc = l /\ error = "none"

Goto(l) == pc' = l

\* An exception propagates to the top level: the script stops at the
\* statement, the open transaction is never committed, and the with block,
\* when the statement is in it, closes its session on the way out.
Raise(e) ==
    /\ error' = e
    /\ inTx' = FALSE
    /\ tx' = db
    /\ heap' = IF InWithBlock(pc) THEN CloseAll(heap, session.id) ELSE heap
    /\ session' = IF InWithBlock(pc) THEN [id |-> 0, new |-> <<>>] ELSE session
    /\ UNCHANGED <<pc, engine, db, env, args, result, out>>

Fault == \E e \in EnvFaults(pc) : At(pc) /\ Raise(e)

TableExists(d, cls) ==
    (IF cls = "User" THEN UserTable ELSE AddressTable) \in d.tables

\* BEGIN (implicit): the connection opens a transaction on the committed data.
Begin ==
    /\ inTx' = TRUE
    /\ tx' = db

\* COMMIT of the open transaction.
CommitStep ==
    /\ db' = CommitTransaction(db, tx)
    /\ tx' = db'
    /\ inTx' = FALSE

\* engine = create_engine("sqlite://", echo=True, future=True)
L58_create_engine ==
    /\ At("L58_create_engine")
    /\ engine' = TRUE
    /\ Goto("L63_begin")
    /\ UNCHANGED <<error, db, inTx, tx, session, heap, env, args, result, out>>

\* Base.metadata.create_all(engine): the tables that do not exist yet.
MissingTables(d) == SelectSeq(MetadataTables, LAMBDA t : t \notin d.tables)

L63_begin ==
    /\ At("L63_begin")
    /\ Begin
    /\ Goto(IF MissingTables(db) = <<>> THEN "L63_commit"
            ELSE "L63_create_table")
    /\ UNCHANGED <<error, engine, db, session, heap, env, args, result, out>>

L63_create_table ==
    /\ At("L63_create_table")
    /\ tx' = [tx EXCEPT !.tables = @ \cup {Head(MissingTables(tx))}]
    /\ Goto(IF Len(MissingTables(tx)) = 1 THEN "L63_commit"
            ELSE "L63_create_table")
    /\ UNCHANGED <<error, engine, db, inTx, session, heap, env, args, result,
                   out>>

L63_commit ==
    /\ At("L63_commit")
    /\ CommitStep
    /\ Goto("L69_session")
    /\ UNCHANGED <<error, engine, session, heap, env, args, result, out>>

\* with Session(engine) as session:   and   session = Session(engine)
OpenSession(sid, after) ==
    /\ session' = [id |-> sid, new |-> <<>>]
    /\ Goto(after)
    /\ UNCHANGED <<error, engine, db, inTx, tx, heap, env, args, result, out>>

L69_session ==
    /\ At("L69_session")
    /\ OpenSession(1, "L75_address")

\* An Address(...) written as an argument is built before its User.
BuildAddress(email, after) ==
    /\ heap' = Append(heap, NewAddress(email))
    /\ args' = Append(args, Len(heap) + 1)
    /\ Goto(after)
    /\ UNCHANGED <<error, engine, db, inTx, tx, session, env, result, out>>

\* name = User(name=..., fullname=..., addresses=[the addresses just built])
BuildUser(var, id, u, after) ==
    /\ heap' = ConstructUser(heap, id, u.name, u.fullname, args)
    /\ env' = IF var = "" THEN env ELSE [env EXCEPT ![var] = Len(heap) + 1]
    /\ args' = <<>>
    /\ Goto(after)
    /\ UNCHANGED <<error, engine, db, inTx, tx, session, result, out>>

L75_address ==
    /\ At("L75_address")
    /\ BuildAddress(SpongebobEmail, "L72_user")

L72_user ==
    /\ At("L72_user")
    /\ BuildUser("spongebob", 0, Spongebob, "L81_address")

L81_address ==
    /\ At("L81_address")
    /\ BuildAddress(SandyEmail, "L82_address")

L82_address ==
    /\ At("L82_address")
    /\ BuildAddress(SandyEmail2, "L77_user")

L77_user ==
    /\ At("L77_user")
    /\ BuildUser("sandy", 0, Sandy, "L85_user")

L85_user ==
    /\ At("L85_user")
    /\ BuildUser("patrick", 0, Patrick, "L88_add_all")

\* session.add_all([spongebob, sandy, patrick])
L88_add_all ==
    /\ At("L88_add_all")
    /\ LET added == AddAllOrder(heap, <<env.spongebob, env.sandy, env.patrick>>)
       IN  /\ heap' = MakePending(heap, session.id, added)
           /\ session' = [session EXCEPT !.new = @ \o added]
    /\ Goto("L91_begin")
    /\ UNCHANGED <<error, engine, db, inTx, tx, env, args, result, out>>

\* A mutation of FlushStep: every statement of a flush is committed at once.
FlushStepAutocommit(self, after) ==
    LET work == FlushWork(heap, session)
        w == Head(work)
    IN  /\ tx' = Execute(tx, heap, w)
        /\ db' = tx'
        /\ heap' = Saved(tx, heap, w)
        /\ Goto(IF Len(work) = 1 THEN after ELSE self)
        /\ UNCHANGED <<error, engine, inTx, session, env, args, result, out>>

\* One statement of a flush.
FlushStep(self, after) ==
    LET work == FlushWork(heap, session)
        w == Head(work)
    IN  IF ~TableExists(tx, heap[w.ref].cls) THEN Raise("OperationalError")
        ELSE IF ViolatesNotNull(heap, w) THEN Raise("IntegrityError")
        ELSE /\ tx' = Execute(tx, heap, w)
             /\ heap' = Saved(tx, heap, w)
             /\ Goto(IF Len(work) = 1 THEN after ELSE self)
             /\ UNCHANGED <<error, engine, db, inTx, session, env, args,
                            result, out>>

\* A mutation of SessionCommit: the commit is left out, and the session's
\* transaction is rolled back when the session goes away.
SessionCommitForgotten(after) ==
    /\ tx' = db
    /\ inTx' = FALSE
    /\ session' = [session EXCEPT !.new = <<>>]
    /\ Goto(after)
    /\ UNCHANGED <<error, engine, db, heap, env, args, result, out>>

\* The end of session.commit(): COMMIT, then expire_on_commit.
SessionCommit(after) ==
    /\ CommitStep
    /\ heap' = ExpireAll(heap, session.id)
    /\ session' = [session EXCEPT !.new = <<>>]
    /\ Goto(after)
    /\ UNCHANGED <<error, engine, env, args, result, out>>

\* session.commit() of the first session
L91_begin ==
    /\ At("L91_begin")
    /\ Begin
    /\ Goto(IF FlushWork(heap, session) = <<>> THEN "L91_commit"
            ELSE "L91_flush")
    /\ UNCHANGED <<error, engine, db, session, heap, env, args, result, out>>

L91_flush == At("L91_flush") /\ FlushStep("L91_flush", "L91_commit")

L91_commit ==
    /\ At("L91_commit")
    /\ SessionCommit("L92_close")

\* the end of the with block: session.close()
L92_close ==
    /\ At("L92_close")
    /\ heap' = CloseAll(heap, session.id)
    /\ session' = [id |-> 0, new |-> <<>>]
    /\ Goto("L96_session")
    /\ UNCHANGED <<error, engine, db, inTx, tx, env, args, result, out>>

L96_session ==
    /\ At("L96_session")
    /\ OpenSession(2, "L104_begin")

\* for user in session.scalars(stmt): the session begins its transaction
\* and runs the SELECT; the result yields one object per row.
L104_begin ==
    /\ At("L104_begin")
    /\ Begin
    /\ Goto("L104_select")
    /\ UNCHANGED <<error, engine, db, session, heap, env, args, result, out>>

L104_select ==
    /\ At("L104_select")
    /\ IF ~TableExists(tx, "User") THEN Raise("OperationalError")
       ELSE LET loaded == LoadRows(heap, session.id, "User",
                                   SelectUsersWhereNameIn(tx, InNames), <<>>)
            IN  /\ heap' = loaded.heap
                /\ result' = loaded.refs
                /\ Goto("L104_next")
                /\ UNCHANGED <<error, engine, db, inTx, tx, session, env,
                               args, out>>

L104_next ==
    /\ At("L104_next")
    /\ IF result = <<>>
       THEN /\ Goto("L107_user")
            /\ UNCHANGED <<env, result>>
       ELSE /\ env' = [env EXCEPT !.user = Head(result)]
            /\ result' = Tail(result)
            /\ Goto("L105_print")
    /\ UNCHANGED <<error, engine, db, inTx, tx, session, heap, args, out>>

\* Reading an attribute that has to be loaded, of an object without a
\* session, raises DetachedInstanceError.
ReadFails(o, attr) == NeedsSession(o, attr) /\ Detached(o)

\* print(x)
PrintStep(var, after) ==
    /\ IF ReadFails(heap[env[var]], "id") THEN Raise("DetachedInstanceError")
       ELSE /\ out' = Append(out, Repr(heap[env[var]]))
            /\ Goto(after)
            /\ UNCHANGED <<error, engine, db, inTx, tx, session, heap, env,
                           args, result>>

L105_print ==
    /\ At("L105_print")
    /\ PrintStep("user", "L104_next")

\* The two expression statements User(id=..., name=..., fullname=...):
\* each builds a transient object that nothing refers to.
L107_user ==
    /\ At("L107_user")
    /\ BuildUser("", 1, Spongebob, "L108_user")

L108_user ==
    /\ At("L108_user")
    /\ BuildUser("", 2, Sandy, "L118_select_one")

\* var = session.scalars(stmt).one(): exactly one row, or an exception.
SelectOne(cls, rows, var, after) ==
    /\ IF ~TableExists(tx, cls) THEN Raise("OperationalError")
       ELSE IF Len(rows) = 0 THEN Raise("NoResultFound")
       ELSE IF Len(rows) > 1 THEN Raise("MultipleResultsFound")
       ELSE LET loaded == LoadRows(heap, session.id, cls, rows, <<>>)
            IN  /\ heap' = loaded.heap
                /\ env' = [env EXCEPT ![var] = loaded.refs[1]]
                /\ Goto(after)
                /\ UNCHANGED <<error, engine, db, inTx, tx, session, args,
                               result, out>>

L118_select_one ==
    /\ At("L118_select_one")
    /\ SelectOne("Address",
              SelectAddressJoinUser(tx, "sandy", SandyEmail),
              "sandy_address", "L119_print")

L119_print ==
    /\ At("L119_print")
    /\ PrintStep("sandy_address", "L125_select_one")

L125_select_one ==
    /\ At("L125_select_one")
    /\ SelectOne("User",
              SelectUsersWhereNameEq(tx, "patrick"), "patrick",
              "L128_lazyload")

\* The addresses collection of a loaded user, once its rows are loaded:
\* the objects of the rows belong to the user.
WithCollection(h, sid, u) ==
    LET loaded == LoadRows(h, sid, "Address",
                           SelectAddressesOfUser(tx, h[u].id), <<>>)
    IN  [r \in DOMAIN loaded.heap |->
            IF r = u THEN [loaded.heap[r] EXCEPT !.addresses = "loaded"]
            ELSE IF \E i \in DOMAIN loaded.refs : loaded.refs[i] = r
                 THEN [loaded.heap[r] EXCEPT !.user = u]
                 ELSE loaded.heap[r]]

\* patrick.addresses.append(Address(...)): patrick.addresses is read first
\* (a lazy load), then the Address is built, then it is appended: the
\* backref sets its user and the save-update cascade makes it pending in
\* patrick's session.
L128_lazyload ==
    /\ At("L128_lazyload")
    /\ IF ReadFails(heap[env.patrick], "addresses")
       THEN Raise("DetachedInstanceError")
       ELSE /\ heap' = IF heap[env.patrick].addresses = "unloaded"
                       THEN WithCollection(heap, session.id, env.patrick)
                       ELSE heap
            /\ Goto("L128_address")
            /\ UNCHANGED <<error, engine, db, inTx, tx, session, env, args,
                           result, out>>

L128_address ==
    /\ At("L128_address")
    /\ BuildAddress(PatrickEmail, "L128_append")

Appended(h, u, a) ==
    [h EXCEPT ![a] = [@ EXCEPT !.user = u,
                               !.state = IF h[u].session # 0 THEN "pending"
                                         ELSE @,
                               !.session = h[u].session]]

L128_append ==
    /\ At("L128_append")
    /\ heap' = Appended(heap, env.patrick, args[1])
    /\ session' = IF heap[env.patrick].session = session.id
                  THEN [session EXCEPT !.new = Append(@, args[1])]
                  ELSE session
    /\ args' = <<>>
    /\ Goto("L131_set_email")
    /\ UNCHANGED <<error, engine, db, inTx, tx, env, result, out>>

\* A mutation of SetEmail: the value is assigned to a misspelt attribute,
\* which is no column of the class.
SetEmailMisspelt(h, a, email) == h

\* sandy_address.email_address = "sandy_cheeks@sqlalchemy.org"
SetEmail(h, a, email) ==
    [h EXCEPT ![a] = [@ EXCEPT !.email_address = email, !.modified = TRUE]]

L131_set_email ==
    /\ At("L131_set_email")
    /\ heap' = SetEmail(heap, env.sandy_address, SandyNewEmail)
    /\ Goto(IF FlushWork(heap', session) = <<>> THEN "L133_commit"
            ELSE "L133_flush")
    /\ UNCHANGED <<error, engine, db, inTx, tx, session, env, args, result,
                   out>>

\* session.commit() of the second session
L133_flush == At("L133_flush") /\ FlushStep("L133_flush", "L133_commit")

L133_commit ==
    /\ At("L133_commit")
    /\ SessionCommit("L138_get")

\* sandy.addresses.get(User, 2): sandy is the object built at line 77.  Its
\* session was closed at the end of the with block and the commit at line 91
\* expired its attributes, so reading sandy.addresses has nothing to load
\* from; and a loaded addresses collection is a list, which has no get.
L138_get ==
    /\ At("L138_get")
    /\ IF ReadFails(heap[env.sandy], "addresses")
       THEN Raise("DetachedInstanceError")
       ELSE Raise("AttributeError")

Init ==
    /\ pc = "L58_create_engine"
    /\ error = "none"
    /\ engine = FALSE
    /\ db = EmptyDB
    /\ inTx = FALSE
    /\ tx = EmptyDB
    /\ session = [id |-> 0, new |-> <<>>]
    /\ heap = <<>>
    /\ env = [spongebob |-> 0, sandy |-> 0, patrick |-> 0, user |-> 0,
              sandy_address |-> 0]
    /\ args = <<>>
    /\ result = <<>>
    /\ out = <<>>

Next ==
    \/ L58_create_engine
    \/ L63_begin
    \/ L63_create_table
    \/ L63_commit
    \/ L69_session
    \/ L75_address
    \/ L72_user
    \/ L81_address
    \/ L82_address
    \/ L77_user
    \/ L85_user
    \/ L88_add_all
    \/ L91_begin
    \/ L91_flush
    \/ L91_commit
    \/ L92_close
    \/ L96_session
    \/ L104_begin
    \/ L104_select
    \/ L104_next
    \/ L105_print
    \/ L107_user
    \/ L108_user
    \/ L118_select_one
    \/ L119_print
    \/ L125_select_one
    \/ L128_lazyload
    \/ L128_address
    \/ L128_append
    \/ L131_set_email
    \/ L133_flush
    \/ L133_commit
    \/ L138_get
    \/ Fault

Spec == Init /\ [][Next]_vars

(***************************************************************************)
(* Properties.                                                             *)
(***************************************************************************)
\* Control has passed the statement l (whether or not the run has stopped
\* since).
After(l) == Pos(pc) > Pos(l)

\* The rows of a database, without its schema.
Rows(d) == <<d.user_account, d.address>>

\* The run has ended of itself: a statement of the script raised, with no
\* interrupt and no database fault.  (Line 138 always raises, so no run
\* ends by running out of statements.)
ScriptOver == error \notin ({"none"} \cup AllEnvFaults)

InsertedUsers == {Spongebob, Sandy, Patrick}

AddressCount(d, name) ==
    Cardinality({a \in d.address :
                    \E u \in d.user_account :
                        u.name = name /\ u.id = a.user_id})

\* C1: once the first session has committed, the committed user table
\* holds exactly three rows, and a select by each of the three names
\* returns one row, with that name and the full name it was inserted with;
\* until the second commit, spongebob, sandy and patrick own 1, 2 and 0
\* address rows.
C1_InsertedUsersRetrievable ==
    After("L91_commit") =>
        /\ Cardinality(db.user_account) = 3
        /\ \A u \in InsertedUsers :
              LET rows == SelectUsersWhereNameEq(db, u.name)
              IN  /\ Len(rows) = 1
                  /\ rows[1].name = u.name
                  /\ rows[1].fullname = u.fullname
        /\ ~After("L133_commit") =>
              /\ AddressCount(db, "spongebob") = 1
              /\ AddressCount(db, "sandy") = 2
              /\ AddressCount(db, "patrick") = 0

C1_Witness ==
    /\ pc = "L92_close"
    /\ error = "none"
    /\ Cardinality(db.user_account) = 3
    /\ Cardinality(db.address) = 3

\* C2 as stated: when the script is over, the committed database holds no
\* user named patrick and no address patrickstar@sqlalchemy.org.
C2_PatrickDeleted ==
    ScriptOver =>
        /\ \A u \in db.user_account : u.name # "patrick"
        /\ \A a \in db.address : a.email_address # PatrickEmail

\* Every address row of the database has a user_id and a user row with it.
Referential(d) ==
    \A a \in d.address :
        /\ a.user_id # 0
        /\ \E u \in d.user_account : u.id = a.user_id

\* C3: in every state, committed or inside the open transaction, every
\* address row references a user row that exists.
C3_AddressesReferenceUsers == Referential(db) /\ Referential(tx)

C3_Witness ==
    /\ inTx
    /\ error = "none"
    /\ Rows(tx) # Rows(db)
    /\ Cardinality(tx.address) >= 2

\* C4: after the commit of line 133 the row of sandy_address holds the new
\* email address, whatever happens later, and no address row holds the old
\* one.
C4_EmailUpdatePersisted ==
    After("L133_commit") =>
        /\ \A a \in db.address : a.email_address # SandyEmail
        /\ \E a \in db.address :
              /\ a.id = heap[env.sandy_address].id
              /\ a.email_address = SandyNewEmail
              /\ AddressFromRow(session.id, a).email_address = SandyNewEmail

C4_Witness ==
    /\ pc = "L138_get"
    /\ error = "none"
    /\ heap[env.sandy_address].expired
    /\ \E a \in db.address : a.email_address = SandyNewEmail

\* What the loop of line 104 has printed, is printing and has still to get.
LoopYield ==
    out \o (IF pc = "L105_print" THEN <<Repr(heap[env.user])>> ELSE <<>>)
        \o [i \in 1..Len(result) |-> Repr(heap[result[i]])]

ExpectedYield ==
    <<<<"User", 1, "spongebob", "Spongebob Squarepants">>,
      <<"User", 2, "sandy", "Sandy Cheeks">>>>

\* C5: the select by name membership yields spongebob (id 1), then sandy
\* (id 2), each once, and nobody else: the loop prints exactly these two,
\* in this order.
C5_MembershipSelect ==
    /\ pc \in {"L104_next", "L105_print"} => LoopYield = ExpectedYield
    /\ After("L105_print") => SubSeq(out, 1, 2) = ExpectedYield

C5_Witness ==
    /\ pc = "L107_user"
    /\ error = "none"
    /\ out = ExpectedYield

\* C6: on the committed data the join select of line 112 has exactly one
\* row, so one() does not raise, and sandy_address is sandy's address with
\* the email sandy@sqlalchemy.org.
C6_JoinSelectOne ==
    /\ pc = "L118_select_one" =>
          /\ Len(SelectAddressJoinUser(db, "sandy", SandyEmail)) = 1
          /\ error \notin {"NoResultFound", "MultipleResultsFound"}
    /\ pc = "L119_print" =>
          LET a == heap[env.sandy_address]
          IN  /\ a.cls = "Address"
              /\ a.state = "persistent"
              /\ a.email_address = SandyEmail
              /\ \E u \in db.user_account :
                    u.name = "sandy" /\ u.id = a.user_id

C6_Witness ==
    /\ pc = "L119_print"
    /\ error = "none"
    /\ env.sandy_address # 0

\* C7 as stated: when the script is over, the row of sandy_address is gone,
\* and user sandy and the address sandy@squirrelpower.org remain.
C7_OrphanDeleted ==
    ScriptOver =>
        /\ \A a \in db.address : a.id # heap[env.sandy_address].id
        /\ \E u \in db.user_account : u.name = "sandy"
        /\ \E a \in db.address : a.email_address = SandyEmail2

\* C8: the committed rows change only in the COMMIT of a session.commit(),
\* and then to what the transaction holds: building and adding objects,
\* assigning an attribute and the statements of a flush leave them alone,
\* and so does everything in a run that stops before its commit.
C8_RowsChangeOnlyAtCommit ==
    [][Rows(db)' # Rows(db) =>
          /\ pc \in {"L91_commit", "L133_commit"}
          /\ error = "none"
          /\ Rows(db)' = Rows(tx)]_vars

C8_Witness ==
    /\ pc = "L133_commit"
    /\ error = "none"
    /\ Rows(tx) # Rows(db)
    /\ heap[env.sandy_address].email_address = SandyNewEmail
    /\ \A a \in db.address : a.email_address # SandyNewEmail

\* C9: a step that ends with an exception raised leaves the script where
\* it is and the committed database as it was, and so does every step
\* after it: nothing is retried, nothing later runs, nothing uncommitted
\* is committed.
C9_FailureEndsScript ==
    [][error' # "none" =>
          /\ pc' = pc
          /\ db' = db
          /\ ~inTx'
          /\ error # "none" => error' = error]_vars

C9_Witness ==
    /\ error = "OperationalError"
    /\ pc = "L133_commit"
    /\ heap[env.sandy_address].email_address = SandyNewEmail
    /\ \E a \in db.address :
          a.id = heap[env.sandy_address].id /\ a.email_address = SandyEmail
    /\ \A a \in db.address : a.email_address # PatrickEmail

\* C10 as stated: no statement of the script fails; only an interrupt or a
\* database fault can keep a run from its last statement.
C10_NoStepFails == error \in {"none", "KeyboardInterrupt", "OperationalError"}

====
